---- MODULE Spec2Model ----
(***************************************************************************)
(* Model of jongukim/polynomial: dense polynomials over big integers       *)
(* (polynomial.go) and the share generator built on them (shamir.go).      *)
(*                                                                         *)
(* A Poly is a Go slice of *big.Int; here it is a sequence of integers,    *)
(* index i+1 holding the coefficient of x^i.  A modulus is an integer,     *)
(* with 0 standing for the nil modulus.  The big.Int objects of a slice    *)
(* are shared between the caller's polynomial and the callee's copy of     *)
(* the slice header, so an operation that writes a coefficient in place    *)
(* changes the caller's polynomial: the operators below return the         *)
(* contents of the arguments after the call next to the results.           *)
(***************************************************************************)
EXTENDS Integers, Sequences, FiniteSets

\* ------------------------------------------------------------- bounds

\* polynomials handed to the operations have at most MaxLen coefficients
MaxLen == 2
\* coefficients handed to NewPolyInts range over -MaxNeg .. MaxCoef
MaxCoef == 2
MaxNeg == 1
\* Clone is called with a shift in -(MaxShift+1) .. MaxShift
MaxShift == 2
\* Eval is called at a point in -1 .. MaxPoint
MaxPoint == 2
\* RandomPoly is called with bits in 0 .. MaxBits
MaxBits == 1
\* the Gcd call stack is followed to this depth
MaxDepth == 8
\* GenRandomShares is called with n in 0 .. MaxN, k in 0 .. MaxK, q in -1 .. MaxQ
MaxN == 2
MaxK == 2
MaxQ == 5
\* values returned by the random source range over 0 .. MaxRand
MaxRand == 6

Coefs == (0 - MaxNeg) .. MaxCoef
\* the nil modulus (0) and the primes the operations are called with
Moduli == {0, 2, 3}

\* ------------------------------------------------- big.Int primitives

Abs(x) == IF x < 0 THEN 0 - x ELSE x

\* big.Int.Mod: Euclidean modulus, result in [0, |m|)
BigMod(x, m) == x % Abs(m)

\* big.Int.Div: Euclidean division, x = q*y + r with 0 <= r < |y|
BigDiv(x, y) == IF y > 0 THEN x \div y ELSE 0 - (x \div (0 - y))

\* big.Int.ModInverse: the inverse of g in Z/nZ; when there is none the
\* receiver is left unchanged (0 for a fresh big.Int) and nil is returned
ModInverse(g, n) ==
  LET c == {x \in 1 .. (n - 1) : (BigMod(g, n) * x) % n = 1}
  IN IF c = {} THEN 0 ELSE CHOOSE x \in c : TRUE

\* big.Int.ProbablyPrime, exact on the small values used here
ProbablyPrime(q) == q > 1 /\ \A d \in 2 .. (q - 1) : q % d # 0

\* ------------------------------------------------ representation

GetDegree(p) == Len(p) - 1

Trim(p) ==
  LET nz == {i \in 2 .. Len(p) : p[i] # 0}
      last == IF nz = {} THEN 1 ELSE CHOOSE i \in nz : \A j \in nz : j <= i
  IN SubSeq(p, 1, last)

IsZero(p) == GetDegree(p) = 0 /\ p[1] = 0

\* the empty list stands for a call without arguments (coeffs == nil)
NewPolyInts(coeffs) == IF coeffs = << >> THEN <<0>> ELSE Trim(coeffs)

Sign(x) == IF x > 0 THEN 1 ELSE IF x < 0 THEN 0 - 1 ELSE 0

\* the first index, from the constant term up, at which p and q differ
FirstDiff(p, q) ==
  LET d == {i \in 1 .. Len(p) : p[i] # q[i]}
  IN IF d = {} THEN 0 ELSE CHOOSE i \in d : \A j \in d : i <= j

Compare(p, q) ==
  IF GetDegree(p) > GetDegree(q) THEN 1
  ELSE IF GetDegree(p) < GetDegree(q) THEN 0 - 1
  ELSE IF FirstDiff(p, q) = 0 THEN 0
  ELSE Sign(p[FirstDiff(p, q)] - q[FirstDiff(p, q)])

Sanitize(p, m) == IF m = 0 THEN p ELSE [i \in 1 .. Len(p) |-> BigMod(p[i], m)]

Neg(p) == [i \in 1 .. Len(p) |-> 0 - p[i]]

\* Clone allocates len(p)+adjust coefficients before it looks at adjust
ClonePanics(p, adjust) == Len(p) + adjust < 0

Clone(p, adjust) ==
  IF adjust < 0 THEN NewPolyInts(<<0>>)
  ELSE [i \in 1 .. (Len(p) + adjust) |-> IF i <= adjust THEN 0 ELSE p[i - adjust]]

\* ------------------------------------------------ arithmetic

AddOrdered(p, q, m) ==
  LET r == [i \in 1 .. Len(p) |-> IF i <= Len(q) THEN p[i] + q[i] ELSE p[i]]
  IN Trim(Sanitize(r, m))

Add(p, q, m) == IF Compare(p, q) < 0 THEN AddOrdered(q, p, m) ELSE AddOrdered(p, q, m)

Sub(p, q, m) == Add(p, Neg(q), m)

\* the double loop of Mul, step n visiting i = n \div len(q), j = n % len(q)
RECURSIVE MulLoop(_, _, _, _, _)
MulLoop(p, q, m, r, n) ==
  IF n >= Len(p) * Len(q) THEN r
  ELSE LET i == n \div Len(q)
           j == n % Len(q)
           a == p[i + 1] * q[j + 1] + r[i + j + 1]
       IN MulLoop(p, q, m, [r EXCEPT ![i + j + 1] = IF m # 0 THEN BigMod(a, m) ELSE a], n + 1)

\* res: the product; p, q: the operands as the call leaves them
Mul(p0, q0, m) ==
  LET p == Sanitize(p0, m)
      q == Sanitize(q0, m)
      zero == [i \in 1 .. (GetDegree(p) + GetDegree(q) + 1) |-> 0]
  IN [res |-> Trim(MulLoop(p, q, m, zero, 0)), p |-> p, q |-> q]

\* ------------------------------------------------ division

\* the ratio r of the leading coefficients (Div, the body of the loop)
LeadRatio(t, q, m) ==
  LET td == GetDegree(t)
      qd == GetDegree(q)
  IN IF m # 0 THEN BigMod(ModInverse(q[qd + 1], m) * t[td + 1], m)
     ELSE BigDiv(t[td + 1], q[qd + 1])

\* u: q shifted by rd and scaled by r from index rd up
Scaled(q, rd, r, m) ==
  LET u == Clone(q, rd)
  IN [i \in 1 .. Len(u) |->
        IF i <= rd THEN u[i]
        ELSE IF m # 0 THEN BigMod(u[i] * r, m) ELSE u[i] * r]

\* whether the leading coefficient of t is an integer multiple of that of q
ExactLead(t, q) ==
  LET a == t[Len(t)]
      b == q[Len(q)]
  IN IF b = 0 THEN a = 0 ELSE a % Abs(b) = 0

\* DivAbort handing back the running remainder in place of a copy of p
DivAbortPartial(p, q, t, steps, inexact) ==
  [quo |-> NewPolyInts(<<0>>), rem |-> Trim(t), p |-> p, q |-> q,
   aborted |-> TRUE, panic |-> FALSE, steps |-> steps, inexact |-> inexact]

\* the return taken when r is 0: quotient zero, remainder a copy of p
DivAbort(p, q, t, steps, inexact) ==
  [quo |-> NewPolyInts(<<0>>), rem |-> Clone(p, 0), p |-> p, q |-> q,
   aborted |-> TRUE, panic |-> FALSE, steps |-> steps, inexact |-> inexact]

\* the return after the loop: both results trimmed
DivFinish(p, q, t, quo, steps, inexact) ==
  [quo |-> Trim(quo), rem |-> Trim(t), p |-> p, q |-> q,
   aborted |-> FALSE, panic |-> FALSE, steps |-> steps, inexact |-> inexact]

\* steps counts the iterations that wrote a quotient coefficient; inexact
\* records that some iteration met a leading coefficient of the running
\* remainder that is no integer multiple of the leading coefficient of q
RECURSIVE DivLoop(_, _, _, _, _, _, _)
DivLoop(p, q, m, t, quo, steps, inexact) ==
  LET td == GetDegree(t)
      qd == GetDegree(q)
      rd == td - qd
  IN IF rd < 0 \/ IsZero(t) THEN DivFinish(p, q, t, quo, steps, inexact)
     ELSE IF m = 0 /\ q[qd + 1] = 0
     THEN [quo |-> << >>, rem |-> << >>, p |-> p, q |-> q, aborted |-> FALSE,
           panic |-> TRUE, steps |-> steps, inexact |-> inexact]
     ELSE LET r == LeadRatio(t, q, m)
              nowInexact == inexact \/ (m = 0 /\ ~ExactLead(t, q))
          IN IF r = 0 THEN DivAbort(p, q, t, steps, nowInexact)
             ELSE DivLoop(p, q, m, Trim(Sub(t, Scaled(q, rd, r, m), m)),
                          [quo EXCEPT ![rd + 1] = r], steps + 1, nowInexact)

\* quo, rem: the results; p, q: the operands as the call leaves them
Div(p0, q0, m) ==
  LET p == Sanitize(p0, m)
      q == Sanitize(q0, m)
  IN IF GetDegree(p) < GetDegree(q) \/ IsZero(q)
     THEN [quo |-> NewPolyInts(<<0>>), rem |-> Clone(p, 0), p |-> p, q |-> q,
           aborted |-> FALSE, panic |-> FALSE, steps |-> 0, inexact |-> FALSE]
     ELSE DivLoop(p, q, m, Clone(p, 0),
                  [i \in 1 .. (GetDegree(p) - GetDegree(q) + 1) |-> 0], 0, FALSE)

\* ------------------------------------------------ evaluation

RECURSIVE EvalLoop(_, _, _, _, _, _)
EvalLoop(p, x, m, i, y, accx) ==
  IF i > GetDegree(p) THEN y
  ELSE LET y1 == y + accx * p[i + 1]
           a1 == accx * x
       IN IF m # 0 THEN EvalLoop(p, x, m, i + 1, BigMod(y1, m), BigMod(a1, m))
          ELSE EvalLoop(p, x, m, i + 1, y1, a1)

Eval(p, x, m) == EvalLoop(p, x, m, 0, 0, 1)

\* ------------------------------------------------ share generation

\* big.Int.BitLen of a positive q
RECURSIVE BitLen(_)
BitLen(q) == IF q <= 0 THEN 0 ELSE 1 + BitLen(q \div 2)

\* the values the random source returns for a byte length of size, followed
\* up to MaxRand
RandomBigInt(size) == {r \in 0 .. MaxRand : r < 2 ^ (8 * size)}

\* ShareMod without the reduction
ShareModNone(r, q) == r

\* coeff.Mod(coeff, q) and r.Mod(r, q)
ShareMod(r, q) == BigMod(r, q)

\* one share: x is the reduced random value, y the polynomial at x
SharePoint(p, r, q) == <<ShareMod(r, q), Eval(p, ShareMod(r, q), q)>>

\* ------------------------------------------------ state

VARIABLES
  pc,        \* "new": nothing built; "half": receiver built; "ready": receiver
             \* and argument built; "gcd": inside Gcd; "done": the call returned
  op,        \* the operation called
  P, Q,      \* the caller's polynomials: receiver and argument, as stored now
             \* (the empty sequence while not built)
  m,         \* the modulus of the call, 0 for nil
  narg,      \* the integer argument of the call: Clone's adjust, Eval's x
  inP, inQ,  \* P and Q as they were when the call was made
  res,       \* the polynomial returned (Div: the quotient)
  rem,       \* Div: the remainder returned
  val,       \* the integer returned by Compare and Eval
  aborted,   \* some Div of the call returned through the r = 0 branch
  dsteps,    \* Div: iterations that wrote a quotient coefficient
  inexact,   \* Div: some iteration met a non-multiple leading coefficient
  panicked,  \* the call panicked
  stack,     \* Gcd: the arguments <<p, q>> of the calls made so far, outermost first
  spc,       \* GenRandomShares: "idle", "run", "done"
  sn, sk, sq,\* GenRandomShares: its arguments n, k, q
  spoly,     \* GenRandomShares: the polynomial p
  shares,    \* GenRandomShares: the points ps
  snil       \* GenRandomShares returned nil, nil

vars == <<pc, op, P, Q, m, narg, inP, inQ, res, rem, val, aborted, dsteps,
          inexact, panicked, stack, spc, sn, sk, sq, spoly, shares, snil>>

polyVars == <<pc, op, P, Q, m, narg, inP, inQ, res, rem, val, aborted, dsteps,
              inexact, panicked, stack>>

shareVars == <<spc, sn, sk, sq, spoly, shares, snil>>

\* the argument lists of NewPolyInts: up to MaxLen integers, none for nil
CoefLists == UNION {[1 .. n -> Coefs] : n \in 0 .. MaxLen}

Init ==
  /\ pc = "new" /\ op = "none"
  /\ P = << >> /\ Q = << >>
  /\ m = 0 /\ narg = 0
  /\ inP = << >> /\ inQ = << >>
  /\ res = << >> /\ rem = << >> /\ val = 0
  /\ aborted = FALSE /\ dsteps = 0 /\ inexact = FALSE /\ panicked = FALSE
  /\ stack = << >>
  /\ spc = "idle" /\ sn = 0 /\ sk = 0 /\ sq = 0
  /\ spoly = << >> /\ shares = << >> /\ snil = FALSE

\* ------------------------------------------------ constructors

NewP ==
  /\ pc = "new" /\ pc' = "half"
  /\ \E c \in CoefLists : P' = NewPolyInts(c)
  /\ UNCHANGED <<op, Q, m, narg, inP, inQ, res, rem, val, aborted, dsteps,
                 inexact, panicked, stack>>
  /\ UNCHANGED shareVars

NewQ ==
  /\ pc = "half" /\ pc' = "ready"
  /\ \E c \in CoefLists : Q' = NewPolyInts(c)
  /\ UNCHANGED <<op, P, m, narg, inP, inQ, res, rem, val, aborted, dsteps,
                 inexact, panicked, stack>>
  /\ UNCHANGED shareVars

\* RandomPoly(degree, bits): degree+1 coefficients in [0, 2^bits), trimmed
RandomPoly ==
  /\ pc = "new" /\ pc' = "half"
  /\ \E degree \in 0 .. (MaxLen - 1), bits \in 0 .. MaxBits :
       \E c \in [1 .. (degree + 1) -> 0 .. (2 ^ bits - 1)] : P' = Trim(c)
  /\ UNCHANGED <<op, Q, m, narg, inP, inQ, res, rem, val, aborted, dsteps,
                 inexact, panicked, stack>>
  /\ UNCHANGED shareVars

\* the results are dropped and new polynomials are built
Release ==
  /\ pc = "done"
  /\ pc' = "new" /\ op' = "none"
  /\ P' = << >> /\ Q' = << >>
  /\ m' = 0 /\ narg' = 0 /\ inP' = << >> /\ inQ' = << >>
  /\ res' = << >> /\ rem' = << >> /\ val' = 0
  /\ aborted' = FALSE /\ dsteps' = 0 /\ inexact' = FALSE /\ panicked' = FALSE
  /\ stack' = << >>
  /\ UNCHANGED shareVars

\* ------------------------------------------------ calls

\* the part of a call every operation shares; an operation on the receiver
\* alone is called at "half", one that takes an argument at "ready"
Called(at, name, mod, n) ==
  /\ pc = at
  /\ op' = name /\ m' = mod /\ narg' = n
  /\ inP' = P /\ inQ' = Q
  /\ UNCHANGED shareVars

CompareCall ==
  /\ Called("ready", "Compare", 0, 0) /\ pc' = "done"
  /\ val' = Compare(P, Q)
  /\ UNCHANGED <<P, Q, res, rem, aborted, dsteps, inexact, panicked, stack>>

AddCall ==
  \E mod \in Moduli :
    /\ Called("ready", "Add", mod, 0) /\ pc' = "done"
    /\ res' = Add(P, Q, mod)
    /\ UNCHANGED <<P, Q, rem, val, aborted, dsteps, inexact, panicked, stack>>

SubCall ==
  \E mod \in Moduli :
    /\ Called("ready", "Sub", mod, 0) /\ pc' = "done"
    /\ res' = Sub(P, Q, mod)
    /\ UNCHANGED <<P, Q, rem, val, aborted, dsteps, inexact, panicked, stack>>

NegSelfCall ==
  /\ Called("half", "NegSelf", 0, 0) /\ pc' = "done"
  /\ P' = Neg(P)
  /\ UNCHANGED <<Q, res, rem, val, aborted, dsteps, inexact, panicked, stack>>

NegCall ==
  /\ Called("half", "Neg", 0, 0) /\ pc' = "done"
  /\ res' = Neg(P)
  /\ UNCHANGED <<P, Q, rem, val, aborted, dsteps, inexact, panicked, stack>>

CloneCall ==
  \E adjust \in (0 - (MaxShift + 1)) .. MaxShift :
    /\ Called("half", "Clone", 0, adjust) /\ pc' = "done"
    /\ panicked' = ClonePanics(P, adjust)
    /\ res' = IF ClonePanics(P, adjust) THEN << >> ELSE Clone(P, adjust)
    /\ UNCHANGED <<P, Q, rem, val, aborted, dsteps, inexact, stack>>

MulCall ==
  \E mod \in Moduli :
    /\ Called("ready", "Mul", mod, 0) /\ pc' = "done"
    /\ res' = Mul(P, Q, mod).res
    /\ P' = Mul(P, Q, mod).p /\ Q' = Mul(P, Q, mod).q
    /\ UNCHANGED <<rem, val, aborted, dsteps, inexact, panicked, stack>>

DivCall ==
  \E mod \in Moduli :
    LET d == Div(P, Q, mod)
    IN /\ Called("ready", "Div", mod, 0) /\ pc' = "done"
       /\ res' = d.quo /\ rem' = d.rem
       /\ P' = d.p /\ Q' = d.q
       /\ aborted' = d.aborted /\ dsteps' = d.steps /\ inexact' = d.inexact
       /\ panicked' = d.panic
       /\ UNCHANGED <<val, stack>>

EvalCall ==
  \E mod \in Moduli, x \in (0 - 1) .. MaxPoint :
    /\ Called("half", "Eval", mod, x) /\ pc' = "done"
    /\ val' = Eval(P, x, mod)
    /\ UNCHANGED <<P, Q, res, rem, aborted, dsteps, inexact, panicked, stack>>

\* ------------------------------------------------ Gcd, one call per step

Top == stack[Len(stack)]

\* some call of the chain was handed the arguments of an earlier call of it.
\* Gcd reads nothing but its arguments, so from such a call on the chain
\* repeats itself without end; the model follows a chain no further
Repeats(st) == \E i, j \in 1 .. Len(st) : i < j /\ st[i] = st[j]

GcdCall ==
  \E mod \in Moduli :
    /\ Called("ready", "Gcd", mod, 0) /\ pc' = "gcd"
    /\ stack' = << <<P, Q>> >>
    /\ UNCHANGED <<P, Q, res, rem, val, aborted, dsteps, inexact, panicked>>

\* p.Compare(&q) < 0: return q.Gcd(p, m)
GcdSwap ==
  /\ pc = "gcd" /\ Len(stack) < MaxDepth /\ ~Repeats(stack)
  /\ Compare(Top[1], Top[2]) < 0
  /\ stack' = Append(stack, <<Top[2], Top[1]>>)
  /\ UNCHANGED <<pc, op, P, Q, m, narg, inP, inQ, res, rem, val, aborted,
                 dsteps, inexact, panicked>>
  /\ UNCHANGED shareVars

\* q.isZero(): return p, and every call of the chain returns it
GcdReturn ==
  /\ pc = "gcd"
  /\ Compare(Top[1], Top[2]) >= 0
  /\ IsZero(Top[2])
  /\ res' = Top[1] /\ pc' = "done"
  /\ UNCHANGED <<op, P, Q, m, narg, inP, inQ, rem, val, aborted, dsteps,
                 inexact, panicked, stack>>
  /\ UNCHANGED shareVars

\* GcdFrame recursing on the quotient in place of the remainder
GcdFrameQuo(d) == <<d.q, d.quo>>

\* the frame <<p, q>> the call makes after _, rem := p.Div(q, m)
GcdFrame(d) == <<d.q, d.rem>>

\* _, rem := p.Div(q, m); return q.Gcd(rem, m).  The first Div of a chain is
\* handed the caller's two polynomials and reduces their coefficients in
\* place; every later Div is handed polynomials already reduced
GcdDiv ==
  /\ pc = "gcd" /\ Len(stack) < MaxDepth /\ ~Repeats(stack)
  /\ Compare(Top[1], Top[2]) >= 0
  /\ ~IsZero(Top[2])
  /\ LET d == Div(Top[1], Top[2], m)
     IN /\ stack' = Append(stack, GcdFrame(d))
        /\ aborted' = (aborted \/ d.aborted)
        /\ panicked' = d.panic
        /\ pc' = IF d.panic THEN "done" ELSE pc
  /\ P' = Sanitize(P, m) /\ Q' = Sanitize(Q, m)
  /\ UNCHANGED <<op, m, narg, inP, inQ, res, rem, val, dsteps, inexact>>
  /\ UNCHANGED shareVars

Next ==
  \/ NewP \/ NewQ \/ RandomPoly \/ Release
  \/ CompareCall \/ AddCall \/ SubCall \/ NegSelfCall \/ NegCall \/ CloneCall
  \/ MulCall \/ DivCall \/ EvalCall
  \/ GcdCall \/ GcdSwap \/ GcdReturn \/ GcdDiv

Spec == Init /\ [][Next]_vars

\* the division engine alone: polynomials are built and divided
DivNext == NewP \/ NewQ \/ RandomPoly \/ DivCall \/ Release

DivSpec == Init /\ [][DivNext]_vars

\* the GCD engine alone: polynomials are built and Gcd is called
GcdNext == NewP \/ NewQ \/ RandomPoly \/ GcdCall \/ GcdSwap \/ GcdReturn \/ GcdDiv \/ Release

GcdSpec == Init /\ [][GcdNext]_vars

\* ------------------------------------------------ GenRandomShares, step by step

\* the primality test: nil, nil for a q that is not prime; otherwise the
\* polynomial and the points are filled in
GenStart ==
  /\ spc = "idle"
  /\ \E n \in 0 .. MaxN, k \in 0 .. MaxK, q \in (0 - 1) .. MaxQ :
       /\ sn' = n /\ sk' = k /\ sq' = q
       /\ snil' = ~ProbablyPrime(q)
       /\ spc' = IF ProbablyPrime(q) THEN "run" ELSE "done"
  /\ spoly' = << >> /\ shares' = << >>
  /\ UNCHANGED polyVars

\* for i < k: coeff := RandomBigInt(size); coeff.Mod(coeff, q); p[i] = coeff
GenCoeff ==
  /\ spc = "run" /\ Len(spoly) < sk
  /\ \E r \in RandomBigInt(BitLen(sq) \div 8 + 1) :
       spoly' = Append(spoly, ShareMod(r, sq))
  /\ UNCHANGED <<spc, sn, sk, sq, shares, snil>>
  /\ UNCHANGED polyVars

\* for i < n: r := RandomBigInt(size); r.Mod(r, q); ps[i] = (r, p.Eval(r, q))
GenPoint ==
  /\ spc = "run" /\ Len(spoly) = sk /\ Len(shares) < sn
  /\ \E r \in RandomBigInt(BitLen(sq) \div 8 + 1) :
       shares' = Append(shares, SharePoint(spoly, r, sq))
  /\ UNCHANGED <<spc, sn, sk, sq, spoly, snil>>
  /\ UNCHANGED polyVars

GenReturn ==
  /\ spc = "run" /\ Len(spoly) = sk /\ Len(shares) = sn
  /\ spc' = "done"
  /\ UNCHANGED <<sn, sk, sq, spoly, shares, snil>>
  /\ UNCHANGED polyVars

GenRelease ==
  /\ spc = "done"
  /\ spc' = "idle" /\ sn' = 0 /\ sk' = 0 /\ sq' = 0
  /\ spoly' = << >> /\ shares' = << >> /\ snil' = FALSE
  /\ UNCHANGED polyVars

SharesNext == GenStart \/ GenCoeff \/ GenPoint \/ GenReturn \/ GenRelease

SharesSpec == Init /\ [][SharesNext]_vars

\* ------------------------------------------------ notions the claims use

\* the coefficient of x^(i-1), 0 beyond the stored ones
Coef(p, i) == IF i \in 1 .. Len(p) THEN p[i] ELSE 0

RECURSIVE SumTo(_, _, _, _)
\* the coefficient of x^(k-1) of a*b: the sum over i+j = k+1 of a[i]*b[j]
SumTo(a, b, k, i) == IF i = 0 THEN 0 ELSE Coef(a, i) * Coef(b, k + 1 - i) + SumTo(a, b, k, i - 1)

ProductCoef(a, b, k) == SumTo(a, b, k, k)

\* the degree of p as a polynomial over Z/mZ; -1 for the zero polynomial
DegreeMod(p, mod) ==
  LET nz == {i \in 1 .. Len(p) : p[i] % mod # 0}
  IN IF nz = {} THEN 0 - 1 ELSE (CHOOSE i \in nz : \A j \in nz : j <= i) - 1

Canonical(p) == Len(p) >= 1 /\ (Len(p) > 1 => p[Len(p)] # 0)

Reduced(p, mod) == \A i \in 1 .. Len(p) : 0 <= p[i] /\ p[i] < mod

RECURSIVE Power(_, _)
Power(x, n) == IF n = 0 THEN 1 ELSE x * Power(x, n - 1)

RECURSIVE ValueAt(_, _, _)
\* the sum of p[i] * x^(i-1) over the first n coefficients
ValueAt(p, x, n) == IF n = 0 THEN 0 ELSE p[n] * Power(x, n - 1) + ValueAt(p, x, n - 1)

Prime(q) == q >= 2 /\ \A a, b \in 2 .. q : a * b # q

\* the highest index at which p and q differ, 0 when none
LastDiff(p, q) ==
  LET d == {i \in 1 .. Len(p) : p[i] # q[i]}
  IN IF d = {} THEN 0 ELSE CHOOSE i \in d : \A j \in d : j <= i

\* ------------------------------------------------ claims

\* C1: for every P, Q (Q not zero modulo m; division by the zero polynomial
\* is defined apart) and prime modulus m, Div(P, Q, m) returns quo, rem with
\* quo*Q + rem congruent to P coefficient by coefficient modulo m, and rem
\* zero or of degree strictly below the degree of Q (degrees over Z/mZ).
DivModContract ==
  (pc = "done" /\ op = "Div" /\ m # 0 /\ DegreeMod(inQ, m) >= 0) =>
    /\ \A k \in 1 .. (Len(inP) + Len(inQ) + Len(res) + Len(rem)) :
         (ProductCoef(res, inQ, k) + Coef(rem, k) - Coef(inP, k)) % m = 0
    /\ DegreeMod(rem, m) < DegreeMod(inQ, m)

\* C2: Div without a modulus, deg(P) >= deg(Q), Q not zero: when some
\* iteration meets a leading coefficient of the running remainder that is no
\* integer multiple of the leading coefficient of Q, the call returns the
\* quotient [0] and a remainder equal to the original P, whatever quotient
\* coefficients had been written.
DivInexactAborts ==
  (pc = "done" /\ op = "Div" /\ m = 0 /\ GetDegree(inP) >= GetDegree(inQ)
     /\ ~IsZero(inQ) /\ inexact) =>
    (~panicked /\ res = <<0>> /\ rem = inP)

\* C2 witness: an inexact division that had written a quotient coefficient
\* before it gave up
DivInexactAbortsWitness ==
  /\ pc = "done" /\ op = "Div" /\ m = 0 /\ GetDegree(inP) >= GetDegree(inQ)
  /\ ~IsZero(inQ) /\ inexact /\ dsteps >= 1
  /\ res = <<0>> /\ rem = inP /\ Len(inP) = 2

\* C3: no operation but NegSelf changes a polynomial passed to it: during
\* and after a call of any other operation the receiver and the argument
\* have the length and the coefficients they had when the call was made.
InputsUnchanged ==
  (pc \in {"gcd", "done"} /\ op # "NegSelf") => (P = inP /\ Q = inQ)

\* C4: Gcd terminates: the chain of recursive calls is finite.  A call that
\* is handed the arguments of an earlier call of its chain repeats that
\* call's chain without end, so a finite chain never holds such a call.
GcdTerminates == ~Repeats(stack)

OutputsCanonical ==
  /\ pc \in {"half", "ready"} => Canonical(P)
  /\ pc = "ready" => Canonical(Q)
  /\ (pc = "done" /\ op \in {"Add", "Sub", "Mul", "Div", "Gcd"}) => Canonical(res)
  /\ (pc = "done" /\ op = "Div") => Canonical(rem)

\* C7: with a modulus m, every coefficient of every polynomial returned by
\* Add, Sub, Mul, Div (quotient and remainder) and Gcd, and the value
\* returned by Eval, lies in [0, m).
ResultsReduced ==
  (pc = "done" /\ m # 0) =>
    /\ op \in {"Add", "Sub", "Mul", "Div", "Gcd"} => Reduced(res, m)
    /\ op = "Div" => Reduced(rem, m)
    /\ op = "Eval" => (0 <= val /\ val < m)

\* C8: GenRandomShares(n, k, q) with q prime returns n points and a
\* polynomial of k coefficients (degree k-1), each in [0, q), and every
\* point (x, y) has x in [0, q) and y the value of the polynomial at x
\* modulo q; with q not prime it returns nil, nil.
SharesContract ==
  spc = "done" =>
    IF Prime(sq)
    THEN /\ ~snil
         /\ Len(shares) = sn
         /\ GetDegree(spoly) = sk - 1
         /\ Reduced(spoly, sq)
         /\ \A i \in 1 .. Len(shares) :
              /\ 0 <= shares[i][1] /\ shares[i][1] < sq
              /\ shares[i][2] = ValueAt(spoly, shares[i][1], Len(spoly)) % sq
              /\ shares[i][2] = Eval(spoly, shares[i][1], sq)
    ELSE snil /\ shares = << >> /\ spoly = << >>

\* C8 witness: two points on a polynomial of two coefficients, the leading
\* one not zero, at two different x
SharesContractWitness ==
  /\ spc = "done" /\ ~snil /\ sn = 2 /\ sk = 2 /\ sq = 5
  /\ spoly[2] # 0 /\ shares[1][1] # shares[2][1] /\ shares[1][2] # shares[2][2]

\* C9: Compare orders by degree and, for equal degrees, by the coefficients
\* from the highest one down: the result is the sign of the comparison at
\* the highest index where P and Q differ, 0 when none differs.
CompareHighestFirst ==
  (pc = "done" /\ op = "Compare") =>
    val = IF GetDegree(inP) > GetDegree(inQ) THEN 1
          ELSE IF GetDegree(inP) < GetDegree(inQ) THEN 0 - 1
          ELSE IF LastDiff(inP, inQ) = 0 THEN 0
          ELSE Sign(inP[LastDiff(inP, inQ)] - inQ[LastDiff(inP, inQ)])

\* C10: Clone with a negative shift returns the zero polynomial [0] and does
\* not panic; Clone with a shift >= 0 returns a copy of length len(P)+shift
\* whose first shift coefficients are 0 and whose coefficient at i+shift is
\* P[i].
CloneContract ==
  (pc = "done" /\ op = "Clone") =>
    /\ ~panicked
    /\ IF narg < 0 THEN res = <<0>>
       ELSE /\ Len(res) = Len(inP) + narg
            /\ \A i \in 1 .. narg : res[i] = 0
            /\ \A i \in 1 .. Len(inP) : res[i + narg] = inP[i]

====
